---- MODULE Spec2Model ----
(***************************************************************************)
(* Chess rules engine of bevy-chess: the position model, the legality      *)
(* engine (src/pieces/components.rs), move application                     *)
(* (src/board/movement.rs), the game-status machine                        *)
(* (src/board/status.rs), promotion (src/board/promotion.rs, src/ui.rs,    *)
(* src/pieces/systems.rs) and the move history (src/board/history.rs).     *)
(***************************************************************************)
EXTENDS Integers, Sequences, FiniteSets, TLC

VARIABLES
  pieces,        \* entity id -> Piece {colour, piece_type, pos, has_moved}
  taken,         \* entities carrying the Taken component
  moves,         \* entity id -> <<>> or <<square>>: the Move component
  move_events,   \* MoveMadeEvents sent and not yet read by push_move
  move_stack,    \* MoveStack.stack (the events; last() is the last move)
  stack_changed, \* change detection of MoveStack seen by update_status
  turn,          \* PlayerTurn
  game_status,   \* GameStatus
  last_action,   \* update_status's Local<i32>: the fifty-move counter
  outcome,       \* the last move request: the piece and destination picked,
                 \* the live pieces it was made in, its result (none,
                 \* applied or rejected) and the entity it marked Taken (0:
                 \* none)
  pickable,      \* the squares the pointer picks as destinations in this run
  status_changed,   \* change detection of GameStatus seen by update_move_history
  move_history,     \* MoveHistory.0: one annotation string per full move
  move_number,      \* update_move_history's Local<u32>
  promotion_checked,          \* select_promotion has run in the frame in which
                              \* the Move components are visible
  select_promotion_outcomes,  \* SelectPromotionOutcome events not yet read
  promotion_menus,            \* promoting_entity of every PromotionMenu shown
  promotion_outcomes,         \* PromotionOutcome events not yet read
  promote                     \* entity id -> <<>> or <<piece type>>: Promote

vars == <<pieces, taken, moves, move_events, move_stack, stack_changed,
          turn, game_status, last_action, outcome, pickable, status_changed,
          move_history, move_number, promotion_checked,
          select_promotion_outcomes, promotion_menus, promotion_outcomes,
          promote>>

\* The state of the promotion handshake and the state of the move history.
promotion_vars ==
  <<promotion_checked, select_promotion_outcomes, promotion_menus,
    promotion_outcomes, promote>>

history_vars == <<status_changed, move_history, move_number>>

----------------------------------------------------------------------------
(* Bounds *)

\* No move request is made once the move stack holds this many entries.
MaxStack == 4

\* The longest chain of nested legality and attack checks looked for.
MaxNesting == 7

----------------------------------------------------------------------------
(* Board constants (crate::board) *)

RANK_1 == 0
RANK_8 == 7
A_FILE == 0
D_FILE == 3
F_FILE == 5
G_FILE == 6
H_FILE == 7

FiftyMoves == 50

----------------------------------------------------------------------------
(* Position model: Square *)

Sq(r, f) == [rank |-> r, file |-> f]

Abs(x) == IF x < 0 THEN -x ELSE x

Squares == {Sq(r, f) : r \in RANK_1..RANK_8, f \in A_FILE..H_FILE}

is_valid(s) ==
  /\ s.rank >= RANK_1
  /\ s.rank <= RANK_8
  /\ s.file >= A_FILE
  /\ s.file <= H_FILE

\* Ok(square) is the singleton, Err the empty set.
try_add(s, off) ==
  LET addition == Sq(s.rank + off[1], s.file + off[2])
  IN  IF is_valid(addition) THEN {addition} ELSE {}

is_adjacent(s, other) ==
  Abs(s.rank - other.rank) <= 1 /\ Abs(s.file - other.file) <= 1

is_same_rank(s, other) == s.rank = other.rank

is_same_file(s, other) == s.file = other.file

is_same_diagonal(s, other) ==
  Abs(s.rank - other.rank) = Abs(s.file - other.file)

\* The first element (in entity order) of a non-empty set of entity ids:
\* what Iterator::find returns.
First(S) == CHOOSE i \in S : \A j \in S : i <= j

\* pv is a list of pieces: a function from entity ids to Piece records.
is_occupied(s, pv) ==
  LET on == {i \in DOMAIN pv : pv[i].pos = s}
  IN  IF on = {} THEN "None" ELSE pv[First(on)].colour

----------------------------------------------------------------------------
(* Piece model *)

opponent(c) == IF c = "White" THEN "Black" ELSE "White"

pawn_movement_direction(c) == IF c = "White" THEN 1 ELSE -1

WHITE_PAWN_OFFSETS == {<<1, 0>>, <<2, 0>>, <<1, 1>>, <<1, -1>>}
BLACK_PAWN_OFFSETS == {<<-1, 0>>, <<-2, 0>>, <<-1, -1>>, <<-1, 1>>}
KNIGHT_OFFSETS ==
  {<<1, 2>>, <<-1, 2>>, <<1, -2>>, <<-1, -2>>,
   <<2, 1>>, <<-2, 1>>, <<2, -1>>, <<-2, -1>>}
KING_OFFSETS ==
  {<<0, 1>>, <<0, -1>>, <<1, 1>>, <<1, -1>>, <<-1, 1>>, <<-1, -1>>,
   <<1, 0>>, <<-1, 0>>, <<0, 2>>, <<0, -2>>}
BISHOP_OFFSETS == {<<1, 1>>, <<-1, -1>>, <<-1, 1>>, <<1, -1>>}
ROOK_OFFSETS == {<<0, 1>>, <<0, -1>>, <<1, 0>>, <<-1, 0>>}

multiple_steps(p, off) ==
  UNION {try_add(p.pos, <<off[1] * step, off[2] * step>>) : step \in 1..7}

get_move_set(p) ==
  CASE p.piece_type = "Pawn" ->
         IF p.colour = "White"
         THEN UNION {try_add(p.pos, off) : off \in WHITE_PAWN_OFFSETS}
         ELSE UNION {try_add(p.pos, off) : off \in BLACK_PAWN_OFFSETS}
    [] p.piece_type = "Knight" ->
         UNION {try_add(p.pos, off) : off \in KNIGHT_OFFSETS}
    [] p.piece_type = "King" ->
         UNION {try_add(p.pos, off) : off \in KING_OFFSETS}
    [] p.piece_type = "Bishop" ->
         UNION {multiple_steps(p, off) : off \in BISHOP_OFFSETS}
    [] p.piece_type = "Rook" ->
         UNION {multiple_steps(p, off) : off \in ROOK_OFFSETS}
    [] p.piece_type = "Queen" ->
         UNION {multiple_steps(p, off) : off \in ROOK_OFFSETS \cup BISHOP_OFFSETS}

\* The squares strictly between begin and end on a diagonal, as the loop
\* "for i in 1..x_diff" visits them.
DiagonalSteps(begin, end) ==
  LET x_diff == Abs(begin.rank - end.rank)
  IN  {IF begin.rank < end.rank /\ begin.file < end.file
         THEN Sq(begin.rank + i, begin.file + i)
       ELSE IF begin.rank < end.rank /\ begin.file > end.file
         THEN Sq(begin.rank + i, begin.file - i)
       ELSE IF begin.rank > end.rank /\ begin.file < end.file
         THEN Sq(begin.rank - i, begin.file + i)
       ELSE Sq(begin.rank - i, begin.file - i) : i \in 1..(x_diff - 1)}

is_path_empty(begin, end, pv) ==
  IF begin.rank = end.rank
  THEN ~ \E i \in DOMAIN pv :
           /\ pv[i].pos.rank = begin.rank
           /\ \/ (pv[i].pos.file > begin.file /\ pv[i].pos.file < end.file)
              \/ (pv[i].pos.file > end.file /\ pv[i].pos.file < begin.file)
  ELSE IF begin.file = end.file
  THEN ~ \E i \in DOMAIN pv :
           /\ pv[i].pos.file = begin.file
           /\ \/ (pv[i].pos.rank > begin.rank /\ pv[i].pos.rank < end.rank)
              \/ (pv[i].pos.rank > end.rank /\ pv[i].pos.rank < begin.rank)
  ELSE IF Abs(begin.rank - end.rank) = Abs(begin.file - end.file)
  THEN \A s \in DiagonalSteps(begin, end) : is_occupied(s, pv) = "None"
  ELSE TRUE

\* has_clear_path without the test of the destination's occupant.
has_clear_path_ignoring_occupant(p, new_position, pv) ==
  is_path_empty(p.pos, new_position, pv)

has_clear_path(p, new_position, pv) ==
  /\ is_path_empty(p.pos, new_position, pv)
  /\ is_occupied(new_position, pv) # p.colour

\* last_move is <<>> (None) or <<m>> with m.piece, m.origin, m.destination.
may_take_en_passant(p, new_position, last_move) ==
  IF p.piece_type # "Pawn" THEN FALSE
  ELSE IF last_move # <<>>
  THEN LET prev_piece == last_move[1].piece
           last_move_origin == last_move[1].origin
           last_move_destination == last_move[1].destination
       IN  /\ prev_piece.piece_type = "Pawn"
           /\ Abs(last_move_origin.rank - last_move_destination.rank) = 2
           /\ Abs(last_move_destination.file - p.pos.file) = 1
           /\ last_move_destination.rank = p.pos.rank
           /\ new_position.file = last_move_destination.file
           /\ Abs(new_position.rank - last_move_destination.rank) = 1
  ELSE FALSE

is_valid_for_pawn(p, new_position, pv, last_move) ==
  LET movement_direction == pawn_movement_direction(p.colour)
  IN  IF /\ new_position.rank - p.pos.rank = movement_direction
         /\ p.pos.file = new_position.file
      THEN is_occupied(new_position, pv) = "None"
      ELSE IF /\ ~p.has_moved
              /\ new_position.rank - p.pos.rank = 2 * movement_direction
              /\ p.pos.file = new_position.file
              /\ is_path_empty(p.pos, new_position, pv)
      THEN is_occupied(new_position, pv) = "None"
      ELSE LET may_take ==
                 IF /\ new_position.rank - p.pos.rank = movement_direction
                    /\ Abs(p.pos.file - new_position.file) = 1
                 THEN is_occupied(new_position, pv) = opponent(p.colour)
                 ELSE FALSE
           IN  may_take \/ may_take_en_passant(p, new_position, last_move)

is_valid_for_queen(p, new_position, pv) ==
  /\ is_path_empty(p.pos, new_position, pv)
  /\ \/ is_same_diagonal(new_position, p.pos)
     \/ is_same_file(new_position, p.pos)
     \/ is_same_rank(new_position, p.pos)

is_valid_for_bishop(p, new_position, pv) ==
  /\ is_path_empty(p.pos, new_position, pv)
  /\ is_same_diagonal(new_position, p.pos)

is_valid_for_rook(p, new_position, pv) ==
  /\ is_path_empty(p.pos, new_position, pv)
  /\ (is_same_file(new_position, p.pos) \/ is_same_rank(new_position, p.pos))

is_valid_for_knight(p, new_position) ==
  \/ /\ Abs(p.pos.rank - new_position.rank) = 2
     /\ Abs(p.pos.file - new_position.file) = 1
  \/ /\ Abs(p.pos.rank - new_position.rank) = 1
     /\ Abs(p.pos.file - new_position.file) = 2

\* castle_path without the king's own square (steps 1, 2).
castle_path_without_start(p, new_position) ==
  LET direction == IF new_position.file > p.pos.file THEN 1 ELSE -1
  IN  {Sq(p.pos.rank, p.pos.file + step * direction) : step \in 1..2}

\* The three squares the king stands on and crosses: steps 0, 1, 2.
castle_path(p, new_position) ==
  LET direction == IF new_position.file > p.pos.file THEN 1 ELSE -1
  IN  {Sq(p.pos.rank, p.pos.file + step * direction) : step \in 0..2}

\* The record Some((*self, self.pos, *new_position)).
MoveRecord(p, new_position) ==
  <<[piece |-> p, origin |-> p.pos, destination |-> new_position]>>

RECURSIVE is_move_valid(_, _, _, _)

no_check_in_path(p, new_position, pv) ==
  ~ \E i \in DOMAIN pv :
      /\ pv[i].colour = opponent(p.colour)
      /\ pv[i].piece_type # "King"
      /\ \E path_sq \in castle_path(p, new_position) :
           is_move_valid(pv[i], path_sq, pv, MoveRecord(p, new_position))

may_castle(p, new_position, pv) ==
  IF ~p.has_moved /\ p.piece_type = "King" /\ p.pos.rank = new_position.rank
  THEN /\ \E r \in DOMAIN pv :
            /\ pv[r].piece_type = "Rook"
            /\ pv[r].colour = p.colour
            /\ ~pv[r].has_moved
            /\ IF new_position.file = 2
               THEN pv[r].pos.file = 0 /\ is_path_empty(p.pos, new_position, pv)
               ELSE pv[r].pos.file = 7 /\ is_path_empty(p.pos, new_position, pv)
       /\ no_check_in_path(p, new_position, pv)
  ELSE FALSE

is_valid_for_king(p, new_position, pv) ==
  is_adjacent(p.pos, new_position) \/ may_castle(p, new_position, pv)

is_move_valid(p, new_position, pv, last_move) ==
  IF new_position = p.pos \/ is_occupied(new_position, pv) = p.colour
  THEN FALSE
  ELSE CASE p.piece_type = "King" -> is_valid_for_king(p, new_position, pv)
         [] p.piece_type = "Queen" -> is_valid_for_queen(p, new_position, pv)
         [] p.piece_type = "Bishop" -> is_valid_for_bishop(p, new_position, pv)
         [] p.piece_type = "Knight" -> is_valid_for_knight(p, new_position)
         [] p.piece_type = "Rook" -> is_valid_for_rook(p, new_position, pv)
         [] p.piece_type = "Pawn" ->
              is_valid_for_pawn(p, new_position, pv, last_move)

piece_specfic_rules(p, new_position, pv, last_move) ==
  CASE p.piece_type = "King" -> is_valid_for_king(p, new_position, pv)
    [] p.piece_type = "Pawn" -> is_valid_for_pawn(p, new_position, pv, last_move)
    [] OTHER -> TRUE

\* The copy of the piece list avoids_check works on: the piece on self.pos
\* relocated, an opposing piece on the destination filtered out.
simulated_pieces(p, new_position, pv) ==
  LET kept == {i \in DOMAIN pv :
                 \/ pv[i].pos = p.pos
                 \/ pv[i].colour = p.colour
                 \/ pv[i].pos # new_position}
  IN  [i \in kept |->
         IF pv[i].pos = p.pos THEN [pv[i] EXCEPT !.pos = new_position]
         ELSE pv[i]]

kings_of(c, pv) ==
  {i \in DOMAIN pv : pv[i].colour = c /\ pv[i].piece_type = "King"}

avoids_check(p, new_position, pv) ==
  LET sim == simulated_pieces(p, new_position, pv)
      own_king == sim[First(kings_of(p.colour, sim))]
  IN  ~ \E i \in DOMAIN sim :
          /\ sim[i].colour # p.colour
          /\ is_move_valid(sim[i], own_king.pos, sim, MoveRecord(p, new_position))

legal_moves(p, pv, last_move) ==
  {destination \in get_move_set(p) :
     /\ has_clear_path(p, destination, pv)
     /\ piece_specfic_rules(p, destination, pv, last_move)
     /\ avoids_check(p, destination, pv)}

----------------------------------------------------------------------------
(* Nesting of the legality and attack checks (src/pieces/components.rs) *)

\* For each of legal_moves, avoids_check, is_move_valid, is_valid_for_king,
\* may_castle and no_check_in_path: whether its evaluation has a chain of
\* calls among these functions, itself included, that is longer than depth.
\* Each follows the calls its function makes, under the conditions under
\* which it makes them.
RECURSIVE is_move_valid_nests(_, _, _, _)
RECURSIVE legal_moves_nests(_, _, _, _)

no_check_in_path_nests(p, new_position, pv, depth) ==
  \/ depth = 0
  \/ \E i \in DOMAIN pv :
       /\ pv[i].colour = opponent(p.colour)
       /\ pv[i].piece_type # "King"
       /\ \E path_sq \in castle_path(p, new_position) :
            is_move_valid_nests(pv[i], path_sq, pv, depth - 1)

may_castle_nests(p, new_position, pv, depth) ==
  \/ depth = 0
  \/ /\ ~p.has_moved /\ p.piece_type = "King" /\ p.pos.rank = new_position.rank
     /\ \E r \in DOMAIN pv :
          /\ pv[r].piece_type = "Rook"
          /\ pv[r].colour = p.colour
          /\ ~pv[r].has_moved
          /\ IF new_position.file = 2
             THEN pv[r].pos.file = 0 /\ is_path_empty(p.pos, new_position, pv)
             ELSE pv[r].pos.file = 7 /\ is_path_empty(p.pos, new_position, pv)
     /\ no_check_in_path_nests(p, new_position, pv, depth - 1)

is_valid_for_king_nests(p, new_position, pv, depth) ==
  \/ depth = 0
  \/ /\ ~is_adjacent(p.pos, new_position)
     /\ may_castle_nests(p, new_position, pv, depth - 1)

is_move_valid_nests(p, new_position, pv, depth) ==
  \/ depth = 0
  \/ /\ new_position # p.pos
     /\ is_occupied(new_position, pv) # p.colour
     /\ p.piece_type = "King"
     /\ is_valid_for_king_nests(p, new_position, pv, depth - 1)

\* avoids_check_nests with the attack test done by legal_moves.
avoids_check_nests_through_legal_moves(p, new_position, pv, depth) ==
  \/ depth = 0
  \/ LET sim == simulated_pieces(p, new_position, pv)
     IN  \E i \in DOMAIN sim :
           /\ sim[i].colour # p.colour
           /\ legal_moves_nests(sim[i], sim, MoveRecord(p, new_position), depth - 1)

avoids_check_nests(p, new_position, pv, depth) ==
  \/ depth = 0
  \/ LET sim == simulated_pieces(p, new_position, pv)
         own_king == sim[First(kings_of(p.colour, sim))]
     IN  \E i \in DOMAIN sim :
           /\ sim[i].colour # p.colour
           /\ is_move_valid_nests(sim[i], own_king.pos, sim, depth - 1)

legal_moves_nests(p, pv, last_move, depth) ==
  \/ depth = 0
  \/ \E destination \in get_move_set(p) :
       /\ has_clear_path(p, destination, pv)
       /\ \/ /\ p.piece_type = "King"
             /\ is_valid_for_king_nests(p, destination, pv, depth - 1)
          \/ /\ piece_specfic_rules(p, destination, pv, last_move)
             /\ avoids_check_nests(p, destination, pv, depth - 1)

----------------------------------------------------------------------------
(* Move application (src/board/movement.rs) *)

\* Query<(Entity, &Piece), Without<Taken>>
live_pieces(pcs, tk) == [i \in (DOMAIN pcs) \ tk |-> pcs[i]]

\* move_stack.stack.last(), as an Option
last_of(stack) == IF stack = <<>> THEN <<>> ELSE <<stack[Len(stack)]>>

\* Option<Entity>: 0 is None.
get_en_passant_piece(pv, square, piece_entity, last_move) ==
  IF may_take_en_passant(pv[piece_entity], square, last_move)
  THEN IF last_move = <<>> THEN 0
       ELSE LET on == {i \in DOMAIN pv : pv[i].pos = last_move[1].destination}
            IN  IF on = {} THEN 0 ELSE First(on)
  ELSE 0

\* try_get_taken_piece that finds no piece on the destination.
try_get_taken_piece_on_en_passant_only(pv, square, piece_entity, last_move) ==
  LET taken_piece == get_en_passant_piece(pv, square, piece_entity, last_move)
  IN  <<taken_piece, taken_piece # 0>>

\* <<taken_piece, en_passant>>
try_get_taken_piece(pv, square, piece_entity, last_move) ==
  LET on == {i \in DOMAIN pv : pv[i].pos = square}
  IN  IF on = {}
      THEN LET taken_piece == get_en_passant_piece(pv, square, piece_entity, last_move)
           IN  <<taken_piece, taken_piece # 0>>
      ELSE <<First(on), FALSE>>

not_castling(piece, origin, destination, taken_piece, en_passant) ==
  [piece |-> piece, origin |-> origin, destination |-> destination,
   move_type |-> IF taken_piece # 0
                 THEN (IF en_passant THEN "TakeEnPassant" ELSE "Take")
                 ELSE "Move",
   taken |-> IF taken_piece # 0 THEN taken_piece ELSE 0]

castling(piece, origin, destination) ==
  [piece |-> piece, origin |-> origin, destination |-> destination,
   move_type |-> "Castle", taken |-> 0]

is_take(event) == event.move_type \in {"Take", "TakeEnPassant"}

\* The rooks move_castling_rook's find() ranges over.
castling_rooks(pv, square, moving_piece) ==
  {i \in DOMAIN pv :
     /\ pv[i].piece_type = "Rook"
     /\ ~pv[i].has_moved
     /\ pv[i].colour = moving_piece.colour
     /\ Abs(pv[i].pos.file - square.file) < 3}

\* move_castling_rook with the rook's two destination files exchanged.
move_castling_rook_files_exchanged(pv, square, moving_piece) ==
  LET rook_dest_file == IF square.file = G_FILE THEN D_FILE ELSE F_FILE
  IN  <<First(castling_rooks(pv, square, moving_piece)),
        Sq(square.rank, rook_dest_file)>>

\* <<rook_entity, rook_dest_square>>
move_castling_rook(pv, square, moving_piece) ==
  LET rook_dest_file == IF square.file = G_FILE THEN F_FILE ELSE D_FILE
  IN  <<First(castling_rooks(pv, square, moving_piece)),
        Sq(square.rank, rook_dest_file)>>

is_castling_move(moving_piece, destination) ==
  /\ moving_piece.piece_type = "King"
  /\ Abs(moving_piece.pos.file - destination.file) = 2

\* The Move components move_piece inserts: entity -> <<square>>.
inserted_moves(pv, piece_entity, destination) ==
  LET moving_piece == pv[piece_entity]
      rook == move_castling_rook(pv, destination, moving_piece)
  IN  [i \in DOMAIN pieces |->
         IF i = piece_entity THEN <<destination>>
         ELSE IF is_castling_move(moving_piece, destination) /\ i = rook[1]
         THEN <<rook[2]>>
         ELSE moves[i]]

\* The MoveMadeEvent move_piece sends.
sent_event(pv, piece_entity, destination, last_move) ==
  LET moving_piece == pv[piece_entity]
      tk == try_get_taken_piece(pv, destination, piece_entity, last_move)
  IN  IF is_castling_move(moving_piece, destination)
      THEN castling(moving_piece, moving_piece.pos, destination)
      ELSE not_castling(moving_piece, moving_piece.pos, destination, tk[1], tk[2])

\* moved_pieces with has_moved left as it was.
moved_pieces_keeping_has_moved(pcs, mvs) ==
  [i \in DOMAIN pcs |->
     IF mvs[i] # <<>>
     THEN [pcs[i] EXCEPT !.pos = mvs[i][1]]
     ELSE pcs[i]]

\* make_move on a piece list: every piece with a Move component is relocated.
moved_pieces(pcs, mvs) ==
  [i \in DOMAIN pcs |->
     IF mvs[i] # <<>>
     THEN [pcs[i] EXCEPT !.pos = mvs[i][1], !.has_moved = TRUE]
     ELSE pcs[i]]

----------------------------------------------------------------------------
(* Scheduling *)

\* select_piece: only a piece of the colour holding the turn gets Selected.
select_piece(piece_entity) ==
  /\ piece_entity \notin taken
  /\ pieces[piece_entity].colour = turn

\* remove_taken_pieces sends AppExit when a king carries Taken.
app_exit ==
  \E i \in taken : pieces[i].piece_type = "King"

\* One move is validated and applied at a time: a request is looked at
\* only when the previous move has been applied, its status computed and
\* its annotation recorded.
NoMoveInFlight ==
  /\ \A i \in DOMAIN moves : moves[i] = <<>>
  /\ move_events = <<>>
  /\ ~stack_changed
  /\ ~status_changed

----------------------------------------------------------------------------
(* Systems *)

move_piece_applied(piece_entity, destination) ==
  LET pv == live_pieces(pieces, taken)
      last_move == last_of(move_stack)
      tk == try_get_taken_piece(pv, destination, piece_entity, last_move)
  IN  /\ destination \in legal_moves(pv[piece_entity], pv, last_move)
      /\ taken' = IF tk[1] # 0 THEN taken \cup {tk[1]} ELSE taken
      /\ moves' = inserted_moves(pv, piece_entity, destination)
      /\ move_events' =
           Append(move_events, sent_event(pv, piece_entity, destination, last_move))
      /\ outcome' = [piece |-> piece_entity, destination |-> destination,
                      before |-> pv, result |-> "applied", taken |-> tk[1]]
      /\ UNCHANGED <<pieces, move_stack, stack_changed, turn, game_status,
                     last_action, pickable, history_vars, promotion_vars>>

\* move_piece_rejected with has_moved set on the piece picked.
move_piece_rejected_marking_moved(piece_entity, destination) ==
  LET pv == live_pieces(pieces, taken)
      last_move == last_of(move_stack)
  IN  /\ destination \notin legal_moves(pv[piece_entity], pv, last_move)
      /\ outcome' = [piece |-> piece_entity, destination |-> destination,
                      before |-> pv, result |-> "rejected", taken |-> 0]
      /\ pieces' = [pieces EXCEPT ![piece_entity].has_moved = TRUE]
      /\ UNCHANGED <<taken, moves, move_events, move_stack,
                     stack_changed, turn, game_status, last_action, pickable,
                     history_vars, promotion_vars>>

move_piece_rejected(piece_entity, destination) ==
  LET pv == live_pieces(pieces, taken)
      last_move == last_of(move_stack)
  IN  /\ destination \notin legal_moves(pv[piece_entity], pv, last_move)
      /\ outcome' = [piece |-> piece_entity, destination |-> destination,
                      before |-> pv, result |-> "rejected", taken |-> 0]
      /\ UNCHANGED <<pieces, taken, moves, move_events, move_stack,
                     stack_changed, turn, game_status, last_action, pickable,
                     history_vars, promotion_vars>>

move_piece ==
  /\ NoMoveInFlight
  /\ ~app_exit
  /\ Len(move_stack) < MaxStack
  /\ \E piece_entity \in DOMAIN pieces, destination \in pickable :
       /\ select_piece(piece_entity)
       /\ pieces[piece_entity].pos # destination
       /\ \/ move_piece_applied(piece_entity, destination)
          \/ move_piece_rejected(piece_entity, destination)

\* The Move components are there for one frame, in which make_move and
\* select_promotion both run; select_promotion reads only what make_move
\* leaves alone (Move.square, piece_type), so its turn is taken first and
\* the removal of the components ends the frame.
make_move ==
  /\ \E i \in (DOMAIN pieces) \ taken : moves[i] # <<>>
  /\ promotion_checked
  /\ pieces' = moved_pieces(pieces,
                  [i \in DOMAIN pieces |-> IF i \in taken THEN <<>> ELSE moves[i]])
  /\ moves' = [i \in DOMAIN pieces |-> IF i \in taken THEN moves[i] ELSE <<>>]
  /\ promotion_checked' = FALSE
  /\ UNCHANGED <<taken, move_events, move_stack, stack_changed, turn,
                 game_status, last_action, outcome, pickable, history_vars,
                 select_promotion_outcomes, promotion_menus,
                 promotion_outcomes, promote>>

push_move ==
  /\ move_events # <<>>
  /\ move_stack' = move_stack \o move_events
  /\ move_events' = <<>>
  /\ stack_changed' = TRUE
  /\ UNCHANGED <<pieces, taken, moves, turn, game_status, last_action,
                 outcome, pickable, history_vars, promotion_vars>>

----------------------------------------------------------------------------
(* Game status (src/board/status.rs) *)

is_in_check(player_colour, pv, last_move) ==
  LET own_king == pv[First(kings_of(player_colour, pv))]
  IN  \E i \in DOMAIN pv :
        /\ pv[i].colour = opponent(player_colour)
        /\ own_king.pos \in legal_moves(pv[i], pv, last_move)

player_has_moves(player_colour, pv, last_move) ==
  \E i \in DOMAIN pv :
    /\ pv[i].colour = player_colour
    /\ legal_moves(pv[i], pv, last_move) # {}

\* The counter after a move.
next_last_action(event, counter) ==
  IF event.piece.piece_type = "Pawn" \/ is_take(event) THEN 0 ELSE counter + 1

\* status_of with the stalemate branch missing.
status_of_without_stalemate(check, has_moves, counter) ==
  IF check /\ ~has_moves THEN "Checkmate"
  ELSE IF counter = FiftyMoves THEN "DrawFiftyMoveRule"
  ELSE IF check /\ has_moves THEN "Check"
  ELSE "OnGoing"

\* status_of with the fifty-move test after the check test.
status_of_check_before_fifty(check, has_moves, counter) ==
  IF check /\ ~has_moves THEN "Checkmate"
  ELSE IF check /\ has_moves THEN "Check"
  ELSE IF counter = FiftyMoves THEN "DrawFiftyMoveRule"
  ELSE IF ~check /\ ~has_moves THEN "DrawStalemate"
  ELSE "OnGoing"

\* The status the if-chain of update_status selects.
status_of(check, has_moves, counter) ==
  IF check /\ ~has_moves THEN "Checkmate"
  ELSE IF counter = FiftyMoves THEN "DrawFiftyMoveRule"
  ELSE IF check /\ has_moves THEN "Check"
  ELSE IF ~check /\ ~has_moves THEN "DrawStalemate"
  ELSE "OnGoing"

\* turn_changes with turn.change() called in the Checkmate branch too.
turn_changes_on_checkmate(status) == status \in {"Check", "OnGoing", "Checkmate"}

\* The statuses in whose branch turn.change() is called.
turn_changes(status) == status \in {"Check", "OnGoing"}

\* The piece list update_status evaluates: live pieces, a pending Move applied.
status_pieces == live_pieces(moved_pieces(pieces, moves), taken)

update_status ==
  /\ move_stack # <<>>
  /\ stack_changed
  /\ kings_of("White", status_pieces) # {}
  /\ kings_of("Black", status_pieces) # {}
  /\ LET pieces_vec == status_pieces
         last_move == move_stack[Len(move_stack)]
         counter == next_last_action(last_move, last_action)
         has_moves == player_has_moves(opponent(turn), pieces_vec, <<last_move>>)
         check == is_in_check(opponent(turn), pieces_vec, <<last_move>>)
         status == status_of(check, has_moves, counter)
     IN  /\ last_action' = counter
         /\ game_status' = status
         /\ turn' = IF turn_changes(status) THEN opponent(turn) ELSE turn
  /\ stack_changed' = FALSE
  /\ status_changed' = TRUE
  /\ UNCHANGED <<pieces, taken, moves, move_events, move_stack, outcome,
                 pickable, move_history, move_number, promotion_vars>>

----------------------------------------------------------------------------
(* Promotion (src/board/promotion.rs, src/ui.rs, src/pieces/systems.rs) *)

\* The elements of a set of entity ids as a list, in entity order.
RECURSIVE in_entity_order(_)
in_entity_order(S) ==
  IF S = {} THEN <<>>
  ELSE <<First(S)>> \o in_entity_order(S \ {First(S)})

\* promotable with the test of the first rank missing.
promotable_on_rank_8(p, square) ==
  /\ p.piece_type = "Pawn"
  /\ square.rank = RANK_8

\* The test of select_promotion on a piece and the square of its Move.
promotable(p, square) ==
  /\ p.piece_type = "Pawn"
  /\ (square.rank = RANK_1 \/ square.rank = RANK_8)

select_promotion ==
  /\ \E i \in (DOMAIN pieces) \ taken : moves[i] # <<>>
  /\ ~promotion_checked
  /\ select_promotion_outcomes' =
       select_promotion_outcomes \o
         in_entity_order({i \in (DOMAIN pieces) \ taken :
                            /\ moves[i] # <<>>
                            /\ promotable(pieces[i], moves[i][1])})
  /\ promotion_checked' = TRUE
  /\ UNCHANGED <<pieces, taken, moves, move_events, move_stack, stack_changed,
                 turn, game_status, last_action, outcome, pickable,
                 history_vars, promotion_menus, promotion_outcomes, promote>>

\* The buttons of a promotion menu.
PromotionChoices == {"Queen", "Rook", "Bishop", "Knight"}

display_promotion_menu ==
  /\ select_promotion_outcomes # <<>>
  /\ promotion_menus' =
       promotion_menus \cup
         {select_promotion_outcomes[k] : k \in DOMAIN select_promotion_outcomes}
  /\ select_promotion_outcomes' = <<>>
  /\ UNCHANGED <<pieces, taken, moves, move_events, move_stack, stack_changed,
                 turn, game_status, last_action, outcome, pickable,
                 history_vars, promotion_checked, promotion_outcomes, promote>>

\* A click on a button: one PromotionOutcome per menu shown, every menu
\* despawned. The click is the player's input, looked at between moves.
make_promotion_choice ==
  /\ NoMoveInFlight
  /\ promotion_menus # {}
  /\ \E piece_type \in PromotionChoices :
       promotion_outcomes' =
         promotion_outcomes \o
           [k \in 1..Cardinality(promotion_menus) |->
              [entity |-> in_entity_order(promotion_menus)[k],
               piece_type |-> piece_type]]
  /\ promotion_menus' = {}
  /\ UNCHANGED <<pieces, taken, moves, move_events, move_stack, stack_changed,
                 turn, game_status, last_action, outcome, pickable,
                 history_vars, promotion_checked, select_promotion_outcomes,
                 promote>>

\* PieceType::notation_letter
notation_letter(piece_type) ==
  CASE piece_type = "King" -> "K"
    [] piece_type = "Queen" -> "Q"
    [] piece_type = "Rook" -> "R"
    [] piece_type = "Bishop" -> "B"
    [] piece_type = "Knight" -> "N"
    [] piece_type = "Pawn" -> ""

\* What promote_piece pushes on the last history entry, event by event.
RECURSIVE promotion_suffix(_)
promotion_suffix(events) ==
  IF events = <<>> THEN ""
  ELSE "=" \o notation_letter(Head(events).piece_type)
         \o promotion_suffix(Tail(events))

\* The Promote component an entity carries once the events are read: the
\* one inserted last.
promoted_to(events, entity, old) ==
  LET mine == {k \in DOMAIN events : events[k].entity = entity}
  IN  IF mine = {} THEN old
      ELSE <<events[CHOOSE k \in mine : \A j \in mine : j <= k].piece_type>>

\* last_mut().unwrap() needs an entry.
promote_piece ==
  /\ promotion_outcomes # <<>>
  /\ move_history # <<>>
  /\ promote' = [i \in DOMAIN promote |->
                   promoted_to(promotion_outcomes, i, promote[i])]
  /\ move_history' =
       [move_history EXCEPT ![Len(move_history)] =
          @ \o promotion_suffix(promotion_outcomes)]
  /\ promotion_outcomes' = <<>>
  /\ UNCHANGED <<pieces, taken, moves, move_events, move_stack, stack_changed,
                 turn, game_status, last_action, outcome, pickable,
                 status_changed, move_number, promotion_checked,
                 select_promotion_outcomes, promotion_menus>>

\* change_mesh with has_moved of the promoted piece reset.
change_mesh_resetting_has_moved ==
  /\ \E i \in DOMAIN promote : promote[i] # <<>>
  /\ pieces' = [i \in DOMAIN pieces |->
                  IF promote[i] # <<>>
                  THEN [pieces[i] EXCEPT !.piece_type = promote[i][1],
                                         !.has_moved = FALSE]
                  ELSE pieces[i]]
  /\ promote' = [i \in DOMAIN promote |-> <<>>]
  /\ UNCHANGED <<taken, moves, move_events, move_stack, stack_changed, turn,
                 game_status, last_action, outcome, pickable, history_vars,
                 promotion_checked, select_promotion_outcomes,
                 promotion_menus, promotion_outcomes>>

\* Query<(Entity, &mut Piece, &Promote)>: Taken pieces included.
change_mesh ==
  /\ \E i \in DOMAIN promote : promote[i] # <<>>
  /\ pieces' = [i \in DOMAIN pieces |->
                  IF promote[i] # <<>>
                  THEN [pieces[i] EXCEPT !.piece_type = promote[i][1]]
                  ELSE pieces[i]]
  /\ promote' = [i \in DOMAIN promote |-> <<>>]
  /\ UNCHANGED <<taken, moves, move_events, move_stack, stack_changed, turn,
                 game_status, last_action, outcome, pickable, history_vars,
                 promotion_checked, select_promotion_outcomes,
                 promotion_menus, promotion_outcomes>>

----------------------------------------------------------------------------
(* Move history (src/board/history.rs) *)

Digits == <<"0", "1", "2", "3", "4", "5", "6", "7", "8", "9">>

\* to_string of a non-negative integer
RECURSIVE to_string(_)
to_string(n) ==
  IF n < 10 THEN Digits[n + 1]
  ELSE to_string(n \div 10) \o Digits[(n % 10) + 1]

FileLetters == <<"a", "b", "c", "d", "e", "f", "g", "h">>

file_annotation(s) == FileLetters[s.file + 1]

rank_annotation(s) == to_string(s.rank + 1)

\* Display for Square
square_text(s) == file_annotation(s) \o rank_annotation(s)

\* The pieces disambiguate_piece finds ambiguous with the mover.
ambiguous_pieces(last_move, moving_piece, pv, destination) ==
  {i \in DOMAIN pv :
     /\ pv[i].colour = moving_piece.colour
     /\ pv[i].piece_type = moving_piece.piece_type
     /\ destination \in legal_moves(pv[i], pv, <<last_move>>)
     /\ pv[i].pos # moving_piece.pos}

\* The disambiguator for a mover and the positions of the ambiguous pieces.
disambiguator(moving_piece, others) ==
  LET file_ambiguous == \E o \in others : o.file = moving_piece.pos.file
      rank_ambiguous == \E o \in others : o.rank = moving_piece.pos.rank
  IN  IF file_ambiguous
      THEN IF rank_ambiguous THEN square_text(moving_piece.pos)
           ELSE rank_annotation(moving_piece.pos)
      ELSE IF others # {} THEN file_annotation(moving_piece.pos)
      ELSE ""

disambiguate_piece(last_move, moving_piece, pv, destination) ==
  disambiguator(moving_piece,
    {pv[i].pos : i \in ambiguous_pieces(last_move, moving_piece, pv, destination)})

\* status_suffix with the Checkmate arm missing.
status_suffix_without_checkmate(status) ==
  CASE status = "Check" -> "!"
    [] OTHER -> ""

status_suffix(status) ==
  CASE status = "Check" -> "!"
    [] status = "Checkmate" -> "#"
    [] OTHER -> ""

\* The text generate_move_annotation formats for a disambiguator.
annotation(prefix, last_move, moving_piece, disambiguation, destination, status) ==
  CASE is_take(last_move) ->
         LET piece_letter == IF moving_piece.piece_type = "Pawn"
                             THEN file_annotation(moving_piece.pos)
                             ELSE notation_letter(moving_piece.piece_type)
         IN  prefix \o " " \o piece_letter \o disambiguation \o "x"
               \o square_text(destination) \o status_suffix(status)
    [] last_move.move_type = "Castle" ->
         IF destination.file = G_FILE
         THEN prefix \o " 0-0" \o status_suffix(status)
         ELSE prefix \o " 0-0-0" \o status_suffix(status)
    [] last_move.move_type = "Move" ->
         prefix \o " " \o notation_letter(moving_piece.piece_type)
           \o disambiguation \o square_text(destination) \o status_suffix(status)

generate_move_annotation(prefix, last_move, moving_piece, pv, destination, status) ==
  annotation(prefix, last_move, moving_piece,
             disambiguate_piece(last_move, moving_piece, pv, destination),
             destination, status)

\* Black's branch needs an entry: last_mut().unwrap().
update_move_history ==
  /\ move_stack # <<>>
  /\ status_changed
  /\ LET pieces_vec == live_pieces(pieces, taken)
         last_move == move_stack[Len(move_stack)]
         moving_piece == last_move.piece
         destination == last_move.destination
     IN  IF moving_piece.colour = "White"
         THEN /\ move_number' = move_number + 1
              /\ move_history' =
                   Append(move_history,
                          generate_move_annotation(
                            to_string(move_number + 1) \o ". ", last_move,
                            moving_piece, pieces_vec, destination, game_status))
         ELSE /\ move_history # <<>>
              /\ move_number' = move_number
              /\ move_history' =
                   [move_history EXCEPT ![Len(move_history)] =
                      generate_move_annotation(
                        @, last_move, moving_piece, pieces_vec, destination,
                        game_status)]
  /\ status_changed' = FALSE
  /\ UNCHANGED <<pieces, taken, moves, move_events, move_stack, stack_changed,
                 turn, game_status, last_action, outcome, pickable,
                 promotion_vars>>

----------------------------------------------------------------------------
(* Positions the game starts from or has reached *)

P(c, t, r, f, m) == [colour |-> c, piece_type |-> t, pos |-> Sq(r, f), has_moved |-> m]

\* An earlier move the stack ends with.
Played(piece, r, f) ==
  [piece |-> piece, origin |-> piece.pos, destination |-> Sq(r, f),
   move_type |-> "Move", taken |-> 0]

BackRank == <<"Rook", "Knight", "Bishop", "Queen", "King", "Bishop", "Knight", "Rook">>

\* create_pieces: the standard starting position.
StartPieces ==
  [i \in 1..32 |->
     IF i <= 8 THEN P("White", BackRank[i], 0, i - 1, FALSE)
     ELSE IF i <= 16 THEN P("White", "Pawn", 1, i - 9, FALSE)
     ELSE IF i <= 24 THEN P("Black", BackRank[i - 16], 7, i - 17, FALSE)
     ELSE P("Black", "Pawn", 6, i - 25, FALSE)]

\* The position after construction: Scenario A (e4, d5, exd5).
StartPosition ==
  [pieces |-> StartPieces, turn |-> "White", move_stack |-> <<>>,
   game_status |-> "NotStarted", last_action |-> 0,
   move_history |-> <<>>, move_number |-> 0,
   pickable |-> {Sq(3, 4), Sq(4, 3), Sq(2, 5)}]

\* White Ka5, Pe5; Black Kh8, Rh5, Pd7; White has just played e4-e5.
EnPassantPosition ==
  [pieces |-> <<P("White", "King", 4, 0, TRUE), P("White", "Pawn", 4, 4, TRUE),
                P("Black", "King", 7, 7, TRUE), P("Black", "Rook", 4, 7, TRUE),
                P("Black", "Pawn", 6, 3, FALSE)>>,
   turn |-> "Black",
   move_stack |-> <<Played(P("White", "Pawn", 3, 4, TRUE), 4, 4)>>,
   game_status |-> "OnGoing", last_action |-> 0,
   move_history |-> <<"1.  e5">>, move_number |-> 1,
   pickable |-> {Sq(4, 3), Sq(5, 3), Sq(5, 0)}]

\* White Ke1, Ra1, Rh1, Nb1, Pa3; Black Ke8, Nh3, Bb8; White has just
\* played a2-a3.
CastlingPosition ==
  [pieces |-> <<P("White", "King", 0, 4, FALSE), P("White", "Rook", 0, 0, FALSE),
                P("White", "Rook", 0, 7, FALSE), P("White", "Knight", 0, 1, FALSE),
                P("White", "Pawn", 2, 0, TRUE),
                P("Black", "King", 7, 4, TRUE), P("Black", "Knight", 2, 7, TRUE),
                P("Black", "Bishop", 7, 1, TRUE)>>,
   turn |-> "Black",
   move_stack |-> <<Played(P("White", "Pawn", 1, 0, FALSE), 2, 0)>>,
   game_status |-> "OnGoing", last_action |-> 0,
   move_history |-> <<"1.  a3">>, move_number |-> 1,
   pickable |-> {Sq(0, 6), Sq(0, 2), Sq(4, 6), Sq(6, 4), Sq(0, 5), Sq(2, 6)}]

\* White Kg6, Qa7; Black Kh8; after White's Kg5-g6 Black has just played
\* Kg8-h8.
QueenEnding(counter) ==
  [pieces |-> <<P("White", "King", 5, 6, TRUE), P("White", "Queen", 6, 0, TRUE),
                P("Black", "King", 7, 7, TRUE)>>,
   turn |-> "White",
   move_stack |-> <<Played(P("White", "King", 4, 6, TRUE), 5, 6),
                    Played(P("Black", "King", 7, 6, TRUE), 7, 7)>>,
   game_status |-> "OnGoing", last_action |-> counter,
   move_history |-> <<"1.  Kg6 Kh8">>, move_number |-> 1,
   pickable |-> {Sq(7, 0), Sq(6, 5), Sq(0, 0), Sq(6, 1), Sq(7, 6), Sq(7, 7)}]

\* White Kh3, Ra6, Ph4, Pg2; Black Kh5; after White's Kh2-h3 Black has just
\* played Kg6-h5.
PawnMatePosition ==
  [pieces |-> <<P("White", "King", 2, 7, TRUE), P("White", "Rook", 5, 0, TRUE),
                P("White", "Pawn", 3, 7, TRUE), P("White", "Pawn", 1, 6, FALSE),
                P("Black", "King", 4, 7, TRUE)>>,
   turn |-> "White",
   move_stack |-> <<Played(P("White", "King", 1, 7, TRUE), 2, 7),
                    Played(P("Black", "King", 5, 6, TRUE), 4, 7)>>,
   game_status |-> "OnGoing", last_action |-> 3,
   move_history |-> <<"1.  Kh3 Kh5">>, move_number |-> 1,
   pickable |-> {Sq(3, 6), Sq(4, 6), Sq(2, 6)}]

\* White Kd3, Pa7; Black Kd6, Ph2; after White's Kd2-d3 Black has just
\* played Kd7-d6: both pawns are one step from the back rank.
PromotionPosition ==
  [pieces |-> <<P("White", "King", 2, 3, TRUE), P("White", "Pawn", 6, 0, TRUE),
                P("Black", "King", 5, 3, TRUE), P("Black", "Pawn", 1, 7, TRUE)>>,
   turn |-> "White",
   move_stack |-> <<Played(P("White", "King", 1, 3, TRUE), 2, 3),
                    Played(P("Black", "King", 6, 3, TRUE), 5, 3)>>,
   game_status |-> "OnGoing", last_action |-> 2,
   move_history |-> <<"1.  Kd3 Kd6">>, move_number |-> 1,
   pickable |-> {Sq(7, 0), Sq(0, 7), Sq(6, 3)}]

\* White Kg1, Nb1, Nb3, Nf3, Pc4, Pe4; Black Kg8, Pd5; after White's Kh1-g1
\* Black has just played Kh8-g8: three knights reach d2, two pawns take on
\* d5.
KnightsPosition ==
  [pieces |-> <<P("White", "King", 0, 6, TRUE), P("White", "Knight", 0, 1, FALSE),
                P("White", "Knight", 2, 1, TRUE), P("White", "Knight", 2, 5, TRUE),
                P("White", "Pawn", 3, 2, TRUE), P("White", "Pawn", 3, 4, TRUE),
                P("Black", "King", 7, 6, TRUE), P("Black", "Pawn", 4, 3, TRUE)>>,
   turn |-> "White",
   move_stack |-> <<Played(P("White", "King", 0, 7, TRUE), 0, 6),
                    Played(P("Black", "King", 7, 7, TRUE), 7, 6)>>,
   game_status |-> "OnGoing", last_action |-> 2,
   move_history |-> <<"1.  Kg1 Kg8">>, move_number |-> 1,
   pickable |-> {Sq(1, 3), Sq(4, 3)}]

\* White Kg1, Pc4, Pd4; Black Kg8, Pd5; after White's Kh1-g1 Black has just
\* played Kh8-g8: the pawn on c4 takes on d5, the square in front of the
\* pawn on d4.
PawnsPosition ==
  [pieces |-> <<P("White", "King", 0, 6, TRUE), P("White", "Pawn", 3, 2, TRUE),
                P("White", "Pawn", 3, 3, TRUE),
                P("Black", "King", 7, 6, TRUE), P("Black", "Pawn", 4, 3, TRUE)>>,
   turn |-> "White",
   move_stack |-> <<Played(P("White", "King", 0, 7, TRUE), 0, 6),
                    Played(P("Black", "King", 7, 7, TRUE), 7, 6)>>,
   game_status |-> "OnGoing", last_action |-> 2,
   move_history |-> <<"1.  Kg1 Kg8">>, move_number |-> 1,
   pickable |-> {Sq(4, 3)}]

\* White Ke1, Re2; Black Kh3, Qe8; after White's Kf1-e1 Black has just
\* played Kg4-h3: the rook is pinned on the e-file and gives check from e3.
PinPosition ==
  [pieces |-> <<P("White", "King", 0, 4, TRUE), P("White", "Rook", 1, 4, TRUE),
                P("Black", "King", 2, 7, TRUE), P("Black", "Queen", 7, 4, TRUE)>>,
   turn |-> "White",
   move_stack |-> <<Played(P("White", "King", 0, 5, TRUE), 0, 4),
                    Played(P("Black", "King", 3, 6, TRUE), 2, 7)>>,
   game_status |-> "OnGoing", last_action |-> 2,
   move_history |-> <<"1.  Ke1 Kh3">>, move_number |-> 1,
   pickable |-> {Sq(2, 4)}]

Positions ==
  {StartPosition, EnPassantPosition, CastlingPosition, QueenEnding(12),
   QueenEnding(49), PawnMatePosition, PromotionPosition, KnightsPosition,
   PawnsPosition, PinPosition}

----------------------------------------------------------------------------
(* Specification *)

Init ==
  \E s \in Positions :
    /\ pieces = s.pieces
    /\ taken = {}
    /\ moves = [i \in DOMAIN s.pieces |-> <<>>]
    /\ move_events = <<>>
    /\ move_stack = s.move_stack
    /\ stack_changed = FALSE
    /\ turn = s.turn
    /\ game_status = s.game_status
    /\ last_action = s.last_action
    /\ outcome = [piece |-> 0, destination |-> Sq(0, 0), before |-> <<>>,
                   result |-> "none", taken |-> 0]
    /\ pickable = s.pickable
    /\ status_changed = FALSE
    /\ move_history = s.move_history
    /\ move_number = s.move_number
    /\ promotion_checked = FALSE
    /\ select_promotion_outcomes = <<>>
    /\ promotion_menus = {}
    /\ promotion_outcomes = <<>>
    /\ promote = [i \in DOMAIN s.pieces |-> <<>>]

Next ==
  \/ move_piece
  \/ make_move
  \/ push_move
  \/ update_status
  \/ update_move_history
  \/ select_promotion
  \/ display_promotion_menu
  \/ make_promotion_choice
  \/ promote_piece
  \/ change_mesh

Spec == Init /\ [][Next]_vars

\* update_status can run: ENABLED <<update_status>>_vars, written out.
update_status_enabled ==
  /\ move_stack # <<>>
  /\ stack_changed
  /\ kings_of("White", status_pieces) # {}
  /\ kings_of("Black", status_pieces) # {}

\* update_move_history can run: ENABLED <<update_move_history>>_vars,
\* written out.
update_move_history_enabled ==
  /\ move_stack # <<>>
  /\ status_changed
  /\ (move_stack[Len(move_stack)].piece.colour = "White" \/ move_history # <<>>)

\* Every system runs in every frame: a system that has work to do does it.
\* The last two conjuncts are WF_vars(update_status) and
\* WF_vars(update_move_history) with their ENABLED written out.
FairSpec ==
  /\ Spec
  /\ WF_vars(make_move)
  /\ WF_vars(push_move)
  /\ WF_vars(select_promotion)
  /\ WF_vars(display_promotion_menu)
  /\ WF_vars(promote_piece)
  /\ WF_vars(change_mesh)
  /\ ([]<>(~update_status_enabled) \/ []<><<update_status>>_vars)
  /\ ([]<>(~update_move_history_enabled) \/ []<><<update_move_history>>_vars)

----------------------------------------------------------------------------
(* Properties *)

\* A position in which the next request is looked at.
AwaitingMove == NoMoveInFlight /\ ~app_exit

\* The live piece list once move_piece's commands for piece_entity ->
\* destination and make_move have run.
position_after(piece_entity, destination) ==
  LET pv == live_pieces(pieces, taken)
      tk == try_get_taken_piece(pv, destination, piece_entity, last_of(move_stack))
  IN  live_pieces(moved_pieces(pieces, inserted_moves(pv, piece_entity, destination)),
                  IF tk[1] # 0 THEN taken \cup {tk[1]} ELSE taken)

\* Some piece of the other colour has a valid move onto colour c's king.
king_attacked(c, pv, last_move) ==
  \E k \in kings_of(c, pv), i \in DOMAIN pv :
    /\ pv[i].colour = opponent(c)
    /\ is_move_valid(pv[i], pv[k].pos, pv, last_move)

legal_now(piece_entity) ==
  legal_moves(pieces[piece_entity], live_pieces(pieces, taken), last_of(move_stack))

\* C1: applying a legal move of the side to move (with its capture, en
\* passant capture or castling rook) never leaves a valid move of an
\* opposing piece onto the mover's own king.
C1_LegalMoveLeavesKingSafe ==
  AwaitingMove =>
    \A e \in DOMAIN pieces :
      select_piece(e) =>
        \A d \in legal_now(e) :
          ~king_attacked(pieces[e].colour, position_after(e, d),
                         MoveRecord(pieces[e], d))

\* The two-file destinations of the king e.
castle_destinations(e) ==
  {d \in legal_now(e) : Abs(d.file - pieces[e].pos.file) = 2}

\* The squares strictly between two squares of one rank.
between_on_rank(a, b) ==
  {s \in Squares :
     /\ s.rank = a.rank
     /\ \/ (s.file > a.file /\ s.file < b.file)
        \/ (s.file > b.file /\ s.file < a.file)}

\* C2: a castling destination is offered only to a king that never moved,
\* with a never-moved rook of its colour on the corner file of that side and
\* every square between king and rook unoccupied.
C2_CastlingNeedsEmptySquaresToRook ==
  AwaitingMove =>
    \A e \in DOMAIN pieces :
      (select_piece(e) /\ pieces[e].piece_type = "King") =>
        \A d \in castle_destinations(e) :
          LET pv == live_pieces(pieces, taken)
              corner == IF d.file < pieces[e].pos.file THEN A_FILE ELSE H_FILE
          IN  /\ ~pieces[e].has_moved
              /\ \E r \in DOMAIN pv :
                   /\ pv[r].piece_type = "Rook"
                   /\ pv[r].colour = pieces[e].colour
                   /\ ~pv[r].has_moved
                   /\ pv[r].pos = Sq(pieces[e].pos.rank, corner)
                   /\ \A s \in between_on_rank(pieces[e].pos, pv[r].pos) :
                        is_occupied(s, pv) = "None"

\* C3: a castling destination is offered only if no opposing piece other
\* than the king has a valid move onto the king's square, the square it
\* crosses or the destination; a king in check is never offered castling.
C3_NoCastlingThroughAttack ==
  AwaitingMove =>
    \A e \in DOMAIN pieces :
      (select_piece(e) /\ pieces[e].piece_type = "King") =>
        /\ \A d \in castle_destinations(e) :
             LET pv == live_pieces(pieces, taken)
                 mid == Sq(d.rank, (d.file + pieces[e].pos.file) \div 2)
             IN  \A i \in DOMAIN pv, s \in {pieces[e].pos, mid, d} :
                   (pv[i].colour # pieces[e].colour /\ pv[i].piece_type # "King")
                     => /\ ~is_move_valid(pv[i], s, pv, MoveRecord(pieces[e], d))
                        /\ ~is_move_valid(pv[i], s, pv, last_of(move_stack))
        /\ game_status = "Check" => castle_destinations(e) = {}

\* A castling destination is on offer to the side to move.
C3_Witness ==
  /\ AwaitingMove
  /\ \E e \in DOMAIN pieces :
       /\ select_piece(e)
       /\ pieces[e].piece_type = "King"
       /\ Cardinality(castle_destinations(e)) = 2

\* C4: an unoccupied forward-diagonal square is in a pawn's legal moves only
\* if the last move of the stack was an opposing pawn's two-rank advance to
\* the square beside the pawn, and the square is the one that advance
\* passed over.
C4_DiagonalToEmptyOnlyEnPassant ==
  AwaitingMove =>
    \A e \in DOMAIN pieces :
      (select_piece(e) /\ pieces[e].piece_type = "Pawn") =>
        \A d \in legal_now(e) :
          (d.file # pieces[e].pos.file
             /\ is_occupied(d, live_pieces(pieces, taken)) = "None") =>
            /\ move_stack # <<>>
            /\ LET last == move_stack[Len(move_stack)]
               IN  /\ last.piece.piece_type = "Pawn"
                   /\ last.piece.colour = opponent(pieces[e].colour)
                   /\ Abs(last.origin.rank - last.destination.rank) = 2
                   /\ last.destination.rank = pieces[e].pos.rank
                   /\ Abs(last.destination.file - pieces[e].pos.file) = 1
                   /\ d = Sq((last.origin.rank + last.destination.rank) \div 2,
                             last.destination.file)

\* C5: an en passant capture goes to an empty square, marks Taken the
\* opposing pawn that stands on the last move's destination and is sent as
\* TakeEnPassant; a move onto an occupied square marks Taken the piece on
\* that square and is sent as Take.
C5_TakenPieceAndMoveType ==
  [][Len(move_events') > Len(move_events) =>
       LET event == move_events'[Len(move_events')]
           pv == live_pieces(pieces, taken)
           marked == taken' \ taken
           on_destination == {i \in DOMAIN pv : pv[i].pos = event.destination}
           en_passant == /\ event.piece.piece_type = "Pawn"
                         /\ event.origin.file # event.destination.file
                         /\ on_destination = {}
       IN  /\ en_passant =>
                /\ event.move_type = "TakeEnPassant"
                /\ move_stack # <<>>
                /\ \E i \in DOMAIN pv :
                     /\ marked = {i}
                     /\ pv[i].pos = move_stack[Len(move_stack)].destination
                     /\ pv[i].piece_type = "Pawn"
                     /\ pv[i].colour = opponent(event.piece.colour)
           /\ on_destination # {} =>
                /\ marked = on_destination
                /\ event.move_type = "Take"]_vars

\* The side the last applied move leaves to move.
side_to_answer == opponent(move_stack[Len(move_stack)].piece.colour)

\* in_check and has_moves of that side in the position reached.
in_check_now ==
  is_in_check(side_to_answer, live_pieces(pieces, taken), last_of(move_stack))

has_moves_now ==
  player_has_moves(side_to_answer, live_pieces(pieces, taken), last_of(move_stack))

\* A step of update_status.
StatusStep == stack_changed /\ ~stack_changed'

\* C6: with the counter not at 50, the status after a move is Checkmate iff
\* the side to answer is in check without moves, Check iff in check with
\* moves, Draw(Stalemate) iff not in check without moves, OnGoing iff not in
\* check with moves.
C6_StatusFromCheckAndMoves ==
  (AwaitingMove /\ move_stack # <<>> /\ game_status # "NotStarted"
     /\ last_action # FiftyMoves) =>
    /\ game_status = "Checkmate" <=> (in_check_now /\ ~has_moves_now)
    /\ game_status = "Check" <=> (in_check_now /\ has_moves_now)
    /\ game_status = "DrawStalemate" <=> (~in_check_now /\ ~has_moves_now)
    /\ game_status = "OnGoing" <=> (~in_check_now /\ has_moves_now)

\* A move has stalemated the other side.
C6_Witness ==
  /\ AwaitingMove
  /\ outcome.result = "applied"
  /\ last_action # FiftyMoves
  /\ game_status = "DrawStalemate"
  /\ ~in_check_now /\ ~has_moves_now

\* C7 as stated: a counter of 50 always gives Draw(FiftyMoveRule).
C7_FiftyMovesAlwaysDraw ==
  (AwaitingMove /\ last_action = FiftyMoves) =>
    game_status = "DrawFiftyMoveRule"

\* C7 amended: a move that brings the counter to 50 gives
\* Draw(FiftyMoveRule) whether or not it gives check or stalemate, unless it
\* gives checkmate, and then the status is Checkmate.
C7_FiftyMovesDrawUnlessMate ==
  (AwaitingMove /\ last_action = FiftyMoves) =>
    game_status = IF in_check_now /\ ~has_moves_now
                  THEN "Checkmate" ELSE "DrawFiftyMoveRule"

\* The fiftieth move gives check and the game is drawn.
C7_Witness ==
  /\ AwaitingMove
  /\ last_action = FiftyMoves
  /\ in_check_now /\ has_moves_now
  /\ game_status = "DrawFiftyMoveRule"

\* C8: the counter starts at 0; the status update of a move sets it to 0 if
\* a pawn moved or a piece was marked Taken and adds 1 otherwise; nothing
\* else changes it.
C8_CounterResetsOnPawnOrCapture ==
  /\ game_status = "NotStarted" => last_action = 0
  /\ [][IF StatusStep
        THEN last_action' =
               IF \/ move_stack[Len(move_stack)].piece.piece_type = "Pawn"
                  \/ outcome.taken # 0
               THEN 0 ELSE last_action + 1
        ELSE last_action' = last_action]_vars

Terminal == {"Checkmate", "DrawStalemate", "DrawFiftyMoveRule"}

\* C9: once the status is Checkmate or a draw, the status, the turn, the
\* move stack and the position stay as they are and no request is applied.
C9_TerminalStatusIsFinal ==
  [][(game_status \in Terminal) =>
       (/\ game_status' = game_status
        /\ turn' = turn
        /\ move_stack' = move_stack
        /\ move_events' = move_events
        /\ status_pieces' = status_pieces)]_vars

\* C10: the turn starts with White, passes to the opponent in the status
\* update of a move that ends in OnGoing or Check, stays in the status
\* update of a move that ends in Checkmate or a draw, and changes in no
\* other step, a rejected request included.
C10_TurnFlipsOncePerMove ==
  /\ game_status = "NotStarted" => turn = "White"
  /\ [][IF StatusStep
        THEN turn' = IF game_status' \in {"OnGoing", "Check"}
                     THEN opponent(turn) ELSE turn
        ELSE turn' = turn]_vars

\* After a checking move the turn is with the checked side, and a request
\* of that side has been rejected.
C10_Witness ==
  /\ AwaitingMove
  /\ game_status = "Check"
  /\ turn = side_to_answer
  /\ outcome.result = "rejected"

\* C11: every move sent is made by a piece of the colour holding the turn,
\* and the colours of the move stack alternate, White first: no side moves
\* twice in a row.
C11_MoversAlternate ==
  /\ \A k \in DOMAIN move_events : move_events[k].piece.colour = turn
  /\ \A k \in DOMAIN move_stack :
       move_stack[k].piece.colour = IF k % 2 = 1 THEN "White" ELSE "Black"

\* The pawns for which a promotion request is raised and no decision is
\* processed yet.
pending_promotions ==
  {select_promotion_outcomes[k] : k \in DOMAIN select_promotion_outcomes}
    \cup promotion_menus
    \cup {promotion_outcomes[k].entity : k \in DOMAIN promotion_outcomes}

\* C12: while a promotion is pending no request is applied: no MoveMadeEvent
\* is sent, no piece is marked Taken and no piece is given a Move (the
\* relocation of the promoting pawn itself belongs to the move that raised
\* the request).
C12_NoMoveWhilePromotionPending ==
  [][(pending_promotions # {}) =>
       (/\ Len(move_events') <= Len(move_events)
        /\ taken' = taken
        /\ \A i \in DOMAIN moves : moves'[i] # <<>> => moves'[i] = moves[i])]_vars

\* C13: a request whose destination is not a legal move of the piece picked
\* is rejected and changes nothing: no position, has_moved, Taken, Move,
\* event, stack entry, turn, status, counter or history entry.
C13_RejectedRequestChangesNothing ==
  [][(outcome' # outcome) =>
       ((outcome'.destination \notin legal_now(outcome'.piece)) =>
          (/\ outcome'.result = "rejected"
           /\ UNCHANGED <<pieces, taken, moves, move_events, move_stack,
                          stack_changed, turn, game_status, last_action,
                          history_vars, promotion_vars>>))]_vars

\* A request rejected although the square is in the piece's pattern, free of
\* its own colour and reached by a clear path: the move would leave the
\* mover's king attacked.
C13_Witness ==
  /\ AwaitingMove
  /\ outcome.result = "rejected"
  /\ LET pv == live_pieces(pieces, taken)
         p == pieces[outcome.piece]
     IN  /\ outcome.destination \in get_move_set(p)
         /\ has_clear_path(p, outcome.destination, pv)
         /\ piece_specfic_rules(p, outcome.destination, pv, last_of(move_stack))
         /\ ~avoids_check(p, outcome.destination, pv)

\* move_piece has accepted a request and sent its event.
MoveAccepted == outcome.result = "applied" /\ move_events # <<>>

\* Every effect of the accepted request is there.
MoveComplete ==
  /\ NoMoveInFlight
  /\ outcome.result = "applied"
  /\ pieces[outcome.piece].pos = outcome.destination
  /\ pieces[outcome.piece].has_moved
  /\ outcome.taken # 0 => outcome.taken \in taken
  /\ move_stack # <<>>
  /\ move_stack[Len(move_stack)].origin = outcome.before[outcome.piece].pos
  /\ move_stack[Len(move_stack)].destination = outcome.destination
  /\ move_history # <<>>

\* C14: an accepted move is applied completely: the piece reaches the
\* destination, the captured piece is Taken, the move is on the stack, the
\* status is recomputed and the history updated for it; and a request is
\* accepted only when no move is in flight.
C14_AcceptedMoveCompletes ==
  /\ MoveAccepted ~> MoveComplete
  /\ [][(Len(move_events') > Len(move_events)) => NoMoveInFlight]_vars

\* C15: for every live piece of a position in which no two pieces share a
\* square, legal_moves holds neither the piece's own square nor a square
\* occupied by a piece of its colour, and only squares on the board.
C15_LegalMovesOnBoardNotOwn ==
  LET pv == live_pieces(pieces, taken)
  IN  (/\ kings_of("White", pv) # {}
       /\ kings_of("Black", pv) # {}
       /\ \A i, j \in DOMAIN pv : pv[i].pos = pv[j].pos => i = j) =>
        \A e \in DOMAIN pv :
          LET found == legal_moves(pv[e], pv, last_of(move_stack))
          IN  /\ pv[e].pos \notin found
              /\ \A d \in found :
                   /\ d.rank \in 0..7
                   /\ d.file \in 0..7
                   /\ \A i \in DOMAIN pv : pv[i].pos = d => pv[i].colour # pv[e].colour

\* A request for a square of the piece's pattern, with a clear path, on
\* which a piece of its own colour stands, was rejected.
C15_Witness ==
  /\ AwaitingMove
  /\ outcome.result = "rejected"
  /\ LET pv == live_pieces(pieces, taken)
         p == pieces[outcome.piece]
     IN  /\ outcome.destination \in get_move_set(p)
         /\ is_path_empty(p.pos, outcome.destination, pv)
         /\ is_occupied(outcome.destination, pv) = p.colour

\* C16: an applied castling move is sent as Castle, gives the king a Move to
\* the g-file or c-file square of its rank and the never-moved rook of its
\* colour on that side's corner a Move to the f-file or d-file square of
\* the rank, and no other piece a Move; make_move puts exactly the pieces
\* with a Move on their squares with has_moved set.
C16_CastlingMovesKingAndRook ==
  [][/\ (Len(move_events') > Len(move_events)
           /\ is_castling_move(move_events'[Len(move_events')].piece,
                               move_events'[Len(move_events')].destination)) =>
          LET event == move_events'[Len(move_events')]
              king == event.piece
              d == event.destination
              king_side == d.file > king.pos.file
              corner == Sq(king.pos.rank, IF king_side THEN 7 ELSE 0)
              rook_square == Sq(king.pos.rank, IF king_side THEN 5 ELSE 3)
          IN  /\ event.move_type = "Castle"
              /\ d = Sq(king.pos.rank, IF king_side THEN 6 ELSE 2)
              /\ \E k, r \in (DOMAIN pieces) \ taken :
                   /\ pieces[k] = king
                   /\ pieces[r].piece_type = "Rook"
                   /\ pieces[r].colour = king.colour
                   /\ ~pieces[r].has_moved
                   /\ pieces[r].pos = corner
                   /\ moves'[k] = <<d>>
                   /\ moves'[r] = <<rook_square>>
                   /\ \A i \in DOMAIN pieces : i \notin {k, r} => moves'[i] = <<>>
     /\ (pieces' # pieces /\ moves' # moves) =>
          \A i \in DOMAIN pieces :
            IF i \notin taken /\ moves[i] # <<>>
            THEN pieces'[i] = [pieces[i] EXCEPT !.pos = moves[i][1],
                                                !.has_moved = TRUE]
            ELSE pieces'[i] = pieces[i]]_vars

\* A castled king stands on the g-file or c-file beside its rook.
C16_Witness ==
  /\ AwaitingMove
  /\ outcome.result = "applied"
  /\ move_stack # <<>>
  /\ move_stack[Len(move_stack)].move_type = "Castle"
  /\ pieces[outcome.piece].piece_type = "King"
  /\ pieces[outcome.piece].has_moved
  /\ \E r \in (DOMAIN pieces) \ taken :
       /\ pieces[r].piece_type = "Rook"
       /\ pieces[r].has_moved
       /\ pieces[r].pos.rank = pieces[outcome.piece].pos.rank
       /\ Abs(pieces[r].pos.file - pieces[outcome.piece].pos.file) = 1

\* How often entity e is in the promotion handshake: as a request raised, a
\* menu shown, a decision sent or a Promote component.
promotion_count(e) ==
  Cardinality({k \in DOMAIN select_promotion_outcomes :
                 select_promotion_outcomes[k] = e})
    + (IF e \in promotion_menus THEN 1 ELSE 0)
    + Cardinality({k \in DOMAIN promotion_outcomes :
                     promotion_outcomes[k].entity = e})
    + (IF promote[e] # <<>> THEN 1 ELSE 0)

\* C17: once the pieces are on their squares, exactly the pieces of type
\* Pawn on rank 1 or rank 8 are in the promotion handshake, each once; a
\* piece_type changes only from Pawn, only to the type of the Promote
\* component, and that component comes from a PromotionOutcome sent for
\* the same piece.
C17_PromotionRequestAndType ==
  /\ []((\A i \in DOMAIN moves : moves[i] = <<>>) =>
          \A e \in DOMAIN pieces :
            promotion_count(e) =
              IF /\ pieces[e].piece_type = "Pawn"
                 /\ pieces[e].pos.rank \in {RANK_1, RANK_8}
              THEN 1 ELSE 0)
  /\ [][\A e \in DOMAIN pieces :
          /\ (pieces'[e].piece_type # pieces[e].piece_type) =>
               /\ pieces[e].piece_type = "Pawn"
               /\ promote[e] = <<pieces'[e].piece_type>>
          /\ (promote'[e] # promote[e] /\ promote'[e] # <<>>) =>
               \E k \in DOMAIN promotion_outcomes :
                 promotion_outcomes[k] =
                   [entity |-> e, piece_type |-> promote'[e][1]]]_vars

\* The black pawn that went to the first rank has become a knight.
C17_Witness ==
  \E e \in DOMAIN pieces :
    /\ outcome.result = "applied"
    /\ outcome.piece = e
    /\ outcome.before[e].piece_type = "Pawn"
    /\ pieces[e].colour = "Black"
    /\ pieces[e].pos.rank = RANK_1
    /\ pieces[e].piece_type = "Knight"
    /\ promotion_count(e) = 0

\* C18: when the decision for a pawn is processed, it is the only one, the
\* last half-move recorded in the history is the move by which that pawn
\* reached the back rank, and the entry of that move gets the suffix "="
\* and the letter once.
C18_PromotionSuffixOnPromotingMove ==
  [][(promotion_outcomes # <<>> /\ promotion_outcomes' = <<>>) =>
       LET recorded == Len(move_stack)
                         - (IF stack_changed \/ status_changed THEN 1 ELSE 0)
           decision == promotion_outcomes[1]
           last == move_stack[recorded]
       IN  /\ Len(promotion_outcomes) = 1
           /\ recorded >= 1
           /\ last.piece.piece_type = "Pawn"
           /\ last.piece.colour = pieces[decision.entity].colour
           /\ last.destination = pieces[decision.entity].pos
           /\ move_history' =
                [move_history EXCEPT ![Len(move_history)] =
                   @ \o "=" \o notation_letter(decision.piece_type)]]_vars

\* A step of update_move_history.
HistoryStep == status_changed /\ ~status_changed'

\* C19: the history is updated once per applied move: a White move appends
\* an entry that starts with the number of the full move, a Black move
\* extends the last entry, earlier entries stay, and after n moves there
\* are ceil(n / 2) entries.
C19_HistoryOncePerMove ==
  /\ [](NoMoveInFlight => Len(move_history) = (Len(move_stack) + 1) \div 2)
  /\ [][HistoryStep =>
          LET n == Len(move_history)
              number == to_string(n + 1) \o ". "
          IN  IF move_stack[Len(move_stack)].piece.colour = "White"
              THEN /\ Len(move_history') = n + 1
                   /\ \A k \in 1..n : move_history'[k] = move_history[k]
                   /\ SubSeq(move_history'[n + 1], 1, Len(number)) = number
              ELSE /\ Len(move_history') = n
                   /\ \A k \in 1..(n - 1) : move_history'[k] = move_history[k]
                   /\ Len(move_history'[n]) > Len(move_history[n])
                   /\ SubSeq(move_history'[n], 1, Len(move_history[n]))
                        = move_history[n]]_vars

\* C20: the annotation recorded for a move carries the disambiguator of the
\* position before the move: with other live pieces of the mover's colour
\* and type that could legally go to the destination, the rank digit if one
\* shares the mover's file and none its rank, the full square if one shares
\* the file and one the rank, the file letter otherwise; without such a
\* piece, nothing.
C20_DisambiguatorFromPositionBefore ==
  [][HistoryStep =>
       LET last == move_stack[Len(move_stack)]
           before == outcome.before
           previous == IF Len(move_stack) > 1
                       THEN <<move_stack[Len(move_stack) - 1]>> ELSE <<>>
           others == {i \in DOMAIN before :
                        /\ before[i].colour = last.piece.colour
                        /\ before[i].piece_type = last.piece.piece_type
                        /\ before[i].pos # last.origin
                        /\ last.destination \in
                             legal_moves(before[i], before, previous)}
           on_file == \E i \in others : before[i].pos.file = last.origin.file
           on_rank == \E i \in others : before[i].pos.rank = last.origin.rank
           expected == IF others = {} THEN ""
                       ELSE IF on_file /\ ~on_rank THEN rank_annotation(last.origin)
                       ELSE IF on_file /\ on_rank THEN square_text(last.origin)
                       ELSE file_annotation(last.origin)
           prefix == IF last.piece.colour = "White"
                     THEN to_string(move_number + 1) \o ". "
                     ELSE move_history[Len(move_history)]
       IN  move_history'[Len(move_history')] =
             annotation(prefix, last, last.piece, expected, last.destination,
                        game_status)]_vars

\* The last character of a text.
last_char(text) == SubSeq(text, Len(text), Len(text))

\* The status update_status computes for the last move on the position reached.
status_for_last_move ==
  status_of(is_in_check(side_to_answer, status_pieces, last_of(move_stack)),
            player_has_moves(side_to_answer, status_pieces, last_of(move_stack)),
            last_action)

\* C21: the annotation recorded for a move ends with "#" exactly when the
\* status is Checkmate and with "!" exactly when it is Check, and the status
\* it is written from is the one computed for the position after that move.
C21_SuffixFromStatusAfterMove ==
  [][HistoryStep =>
       LET text == move_history'[Len(move_history')]
       IN  /\ (last_char(text) = "#") <=> (game_status = "Checkmate")
           /\ (last_char(text) = "!") <=> (game_status = "Check")
           /\ game_status = status_for_last_move]_vars

\* A mating move is in the history with its "#".
C21_Witness ==
  /\ AwaitingMove
  /\ outcome.result = "applied"
  /\ game_status = "Checkmate"
  /\ move_history # <<>>
  /\ last_char(move_history[Len(move_history)]) = "#"

\* C22: the annotation of a capture by a pawn is the file letter of the
\* pawn's origin square, "x", the destination square and the status suffix,
\* with nothing between the file letter and the "x".
C22_PawnCaptureNotation ==
  [][HistoryStep =>
       LET last == move_stack[Len(move_stack)]
           prefix == IF last.piece.colour = "White"
                     THEN to_string(move_number + 1) \o ". "
                     ELSE move_history[Len(move_history)]
       IN  (last.piece.piece_type = "Pawn" /\ is_take(last)) =>
             move_history'[Len(move_history')] =
               prefix \o " " \o file_annotation(last.origin) \o "x"
                 \o square_text(last.destination) \o status_suffix(game_status)]_vars

\* The square create_pieces puts a piece of this colour and type on.
on_creation_square(p) ==
  IF p.piece_type = "Pawn"
  THEN p.pos.rank = (IF p.colour = "White" THEN 1 ELSE 6)
  ELSE /\ p.pos.rank = (IF p.colour = "White" THEN RANK_1 ELSE RANK_8)
       /\ BackRank[p.pos.file + 1] = p.piece_type

\* C23: a piece with has_moved false stands where it was created; has_moved
\* becomes true exactly in the step that relocates the piece to the square
\* of its Move, every relocation sets it, and no step resets it or changes
\* it otherwise (rejected requests and promotion included).
C23_HasMovedSetByFirstRelocation ==
  /\ [](\A i \in DOMAIN pieces : ~pieces[i].has_moved => on_creation_square(pieces[i]))
  /\ [][\A i \in DOMAIN pieces :
          /\ pieces[i].has_moved => pieces'[i].has_moved
          /\ (pieces'[i].pos # pieces[i].pos) =>
               (pieces'[i].has_moved /\ moves[i] = <<pieces'[i].pos>>)
          /\ (pieces'[i].has_moved # pieces[i].has_moved) =>
               pieces'[i].pos # pieces[i].pos]_vars

\* A piece that had not moved has been relocated and has has_moved set,
\* while another piece of its colour still has not moved.
C23_Witness ==
  /\ AwaitingMove
  /\ outcome.result = "applied"
  /\ ~outcome.before[outcome.piece].has_moved
  /\ pieces[outcome.piece].has_moved
  /\ pieces[outcome.piece].pos = outcome.destination
  /\ \E j \in DOMAIN pieces :
       ~pieces[j].has_moved /\ pieces[j].colour = pieces[outcome.piece].colour

\* C24: in every state the live pieces hold exactly one king of each colour.
C24_OneKingPerColour ==
  \A c \in {"White", "Black"} :
    Cardinality({i \in DOMAIN pieces \ taken :
                   pieces[i].piece_type = "King" /\ pieces[i].colour = c}) = 1

\* Some piece of the side that moved has a valid move onto the king of the
\* side to answer, in the position update_status looks at.
king_has_valid_attacker ==
  LET pv == status_pieces
      king == pv[First(kings_of(side_to_answer, pv))]
  IN  \E i \in DOMAIN pv :
        /\ pv[i].colour = opponent(side_to_answer)
        /\ is_move_valid(pv[i], king.pos, pv, last_of(move_stack))

\* C25: the in_check value update_status uses for the side about to move is
\* true exactly when a piece of the side that moved has a valid move onto
\* that side's king square.
C25_InCheckFromValidMoves ==
  update_status_enabled =>
    (is_in_check(side_to_answer, status_pieces, last_of(move_stack))
       <=> king_has_valid_attacker)

\* The square d is the one an opposing pawn passed over in the last move of
\* the stack, a two-rank advance that ended beside the pawn p.
en_passant_square(p, d) ==
  /\ move_stack # <<>>
  /\ LET last == move_stack[Len(move_stack)]
     IN  /\ last.piece.piece_type = "Pawn"
         /\ last.piece.colour = opponent(p.colour)
         /\ Abs(last.origin.rank - last.destination.rank) = 2
         /\ last.destination.rank = p.pos.rank
         /\ Abs(last.destination.file - p.pos.file) = 1
         /\ d = Sq((last.origin.rank + last.destination.rank) \div 2,
                   last.destination.file)

\* C26: every square in a pawn's legal moves is the empty square one rank
\* ahead on its file, or the empty square two ranks ahead on its file with
\* has_moved false and the square between empty, or a square diagonally
\* ahead holding an opposing piece, or the en passant square diagonally
\* ahead.
C26_PawnMovesOnlyFourCases ==
  AwaitingMove =>
    \A e \in DOMAIN pieces :
      (select_piece(e) /\ pieces[e].piece_type = "Pawn") =>
        LET p == pieces[e]
            pv == live_pieces(pieces, taken)
            ahead == pawn_movement_direction(p.colour)
            diagonal(d) == /\ d.rank = p.pos.rank + ahead
                           /\ Abs(d.file - p.pos.file) = 1
        IN  \A d \in legal_now(e) :
              \/ /\ d = Sq(p.pos.rank + ahead, p.pos.file)
                 /\ is_occupied(d, pv) = "None"
              \/ /\ d = Sq(p.pos.rank + 2 * ahead, p.pos.file)
                 /\ ~p.has_moved
                 /\ is_occupied(d, pv) = "None"
                 /\ is_occupied(Sq(p.pos.rank + ahead, p.pos.file), pv) = "None"
              \/ /\ diagonal(d)
                 /\ is_occupied(d, pv) = opponent(p.colour)
              \/ /\ diagonal(d)
                 /\ en_passant_square(p, d)

\* C27: for the square of every piece and every square of the board,
\* is_adjacent is true exactly if the other square is a different square at
\* most one rank and at most one file away.
C27_AdjacentExcludesSelf ==
  \A i \in DOMAIN pieces :
    \A other \in Squares :
      LET s == pieces[i].pos
      IN  is_adjacent(s, other) <=>
            (/\ other # s
             /\ Abs(s.rank - other.rank) <= 1
             /\ Abs(s.file - other.file) <= 1)

\* C28: for every live piece of every position, the evaluation of
\* legal_moves nests legal_moves, avoids_check, is_move_valid,
\* is_valid_for_king, may_castle and no_check_in_path at most MaxNesting
\* calls deep.
C28_LegalMovesNestingBounded ==
  LET pv == live_pieces(pieces, taken)
  IN  (kings_of("White", pv) # {} /\ kings_of("Black", pv) # {}) =>
        \A e \in DOMAIN pv :
          ~legal_moves_nests(pv[e], pv, last_of(move_stack), MaxNesting)

\* A king has castled: its legal moves were computed with the attack test
\* of no_check_in_path nested in may_castle, five calls deep.
C28_Witness ==
  /\ outcome.result = "applied"
  /\ move_events # <<>>
  /\ move_events[Len(move_events)].move_type = "Castle"
  /\ legal_moves_nests(outcome.before[outcome.piece], outcome.before,
                       last_of(move_stack), 4)

\* C29: in every state no two pieces without Taken stand on the same
\* square.
C29_OnePiecePerSquare ==
  \A i, j \in (DOMAIN pieces) \ taken :
    pieces[i].pos = pieces[j].pos => i = j

\* A capture has been made: the mover stands on the square of the piece it
\* took, which carries Taken.
C29_Witness ==
  /\ AwaitingMove
  /\ outcome.result = "applied"
  /\ outcome.taken \in taken
  /\ pieces[outcome.piece].pos = pieces[outcome.taken].pos

\* A step that resolves a promotion: a decision is sent or read, or a
\* Promote component is inserted or used.
PromotionResolved ==
  promotion_outcomes' # promotion_outcomes \/ promote' # promote

\* C30: resolving a promotion changes only the piece_type of a piece that
\* carries a Promote component, to Queen, Rook, Bishop or Knight, and the
\* text of the last history entry; positions, colours, has_moved, Taken,
\* the turn, the status, the counter and the move stack stay, and neither
\* the status nor the history update is set off.
C30_PromotionChangesOnlyTypeAndText ==
  [][PromotionResolved =>
       (/\ UNCHANGED <<taken, moves, move_events, move_stack, stack_changed,
                       status_changed, turn, game_status, last_action,
                       move_number>>
        /\ \A i \in DOMAIN pieces :
             \/ pieces'[i] = pieces[i]
             \/ /\ promote[i] # <<>>
                /\ pieces'[i] = [pieces[i] EXCEPT !.piece_type = promote[i][1]]
                /\ pieces'[i].piece_type \in {"Queen", "Rook", "Bishop", "Knight"}
        /\ Len(move_history') = Len(move_history)
        /\ \A k \in 1..(Len(move_history) - 1) :
             move_history'[k] = move_history[k])]_vars

\* The white pawn that went to the eighth rank has become a queen, the entry
\* of its move ends with "=Q", and the status is the one its move gave.
C30_Witness ==
  /\ AwaitingMove
  /\ outcome.result = "applied"
  /\ outcome.before[outcome.piece].piece_type = "Pawn"
  /\ pieces[outcome.piece].colour = "White"
  /\ pieces[outcome.piece].piece_type = "Queen"
  /\ pieces[outcome.piece].pos = outcome.destination
  /\ promotion_count(outcome.piece) = 0
  /\ game_status = "OnGoing"
  /\ move_history[Len(move_history)] = "2.  a8=Q"

====
